---- MODULE Spec2Model ----
(***************************************************************************)
(* A model of energyflow/base.py: the EFBase measure holder and its        *)
(* batch_compute, and the EFPBase / EFMBase single-event entry points.     *)
(*                                                                         *)
(* Python values that may be None are wrapped: None is the empty tuple and *)
(* a present value x is the one-element tuple <<x>>.  A measure kind is a  *)
(* string, held as its sequence of characters so that Python's substring   *)
(* test ('efm' in kind) is computed and not assumed.                       *)
(***************************************************************************)
EXTENDS Integers, Sequences, FiniteSets, TLC

(***************************************************************************)
(* built            "new" before __init__, then "ok" or "failed" (it raised) *)
(* ctor_no_measure  the no_measure flag __init__ was given (lines 112, 163)  *)
(* obj              the instance: _measure, use_efms, n_jobs (lines 26, 118, *)
(*                  83, 165)                                                 *)
(* call             the call in progress or just finished: its arguments,    *)
(*                  what it returned or raised, the collaborators it called  *)
(* pyVersion        sys.version_info[0] (line 91)                            *)
(* pool             the multiprocessing.Pool of batch_compute (lines 92, 97) *)
(* chunks           the tasks of pool.imap, one per block of events          *)
(* collected        the results list(pool.imap(...)) has taken so far        *)
(* sz               batch_compute by event counts (SpecSize only)            *)
(***************************************************************************)
VARIABLES built, ctor_no_measure, obj, call, pyVersion, pool, chunks, collected, sz

vars == <<built, ctor_no_measure, obj, call, pyVersion, pool, chunks, collected, sz>>

(***************************************************************************)
(* Bounds of the model.                                                    *)
(***************************************************************************)
MaxLen == 4          \* longest events sequence handed to batch_compute
MaxBigLen == 30004   \* longest events sequence of the size-only model

(***************************************************************************)
(* Program constants.                                                      *)
(***************************************************************************)
FallbackJobs == 4    \* n_jobs when cpu_count() fails
MaxChunk == 10000    \* upper clamp of the chunk size
AutoJobs == -1       \* the n_jobs value that asks for auto-detection

None == <<>>
Some(x) == <<x>>
Val(o) == o[1]

Min(a, b) == IF a <= b THEN a ELSE b
Max(a, b) == IF a >= b THEN a ELSE b

(***************************************************************************)
(* Measure kinds as character sequences, and Python's "'efm' in kind".     *)
(***************************************************************************)
Hadr == <<"h", "a", "d", "r">>
HadrEfm == <<"h", "a", "d", "r", "e", "f", "m">>
Efm == <<"e", "f", "m">>

Contains(needle, s) ==
    \E i \in 1..(Len(s) - Len(needle) + 1) :
        SubSeq(s, i, i + Len(needle) - 1) = needle

(***************************************************************************)
(* Events.  An event is a sequence of particle records; the record 0 is a  *)
(* malformed particle, which Measure.evaluate rejects.  The empty event is *)
(* falsy in Python and is not None.                                        *)
(***************************************************************************)
EventDomain == {<<>>, <<0>>, <<2, 1>>}
ArrayDomain == {<<>>, <<2, 1>>, <<3, 2>>}

Opt(S) == {None} \cup {Some(x) : x \in S}

Falsy(event) == Len(event) = 0

(***************************************************************************)
(* Collaborators that live outside base.py (energyflow.measure,            *)
(* energyflow.utils, the concrete subclasses).                             *)
(***************************************************************************)
measure_kwargs == {"measure", "beta", "kappa", "normed", "coords", "check_input"}

\* kwargs_check(name, kwargs, allowed): the unexpected keys, all named in the error
kwargs_check(kwargs, allowed) ==
    LET bad == (DOMAIN kwargs) \ allowed
    IN  IF bad = {} THEN [ok |-> TRUE, error |-> None]
        ELSE [ok |-> FALSE,
              error |-> Some([type |-> "TypeError", keys |-> bad, event |-> None])]

Get(kwargs, key, default) == IF key \in DOMAIN kwargs THEN kwargs[key] ELSE default

\* Measure(measure, **kwargs): the attributes the accessors read
MeasureNew(kwargs) ==
    [measure |-> Some(kwargs["measure"]),
     beta |-> Some(Get(kwargs, "beta", 1)),
     kappa |-> Some(Get(kwargs, "kappa", 1)),
     normed |-> Some(Get(kwargs, "normed", TRUE)),
     coords |-> Some(Get(kwargs, "coords", "ptyphim")),
     check_input |-> Some(Get(kwargs, "check_input", TRUE)),
     subslicing |-> Some(~Contains(Efm, kwargs["measure"]))]

WellFormed(event) == \A i \in 1..Len(event) : event[i] # 0

\* Measure.evaluate(event) -> (zs, angles); raises on a malformed event
MeasureEvaluate(m, event) ==
    IF WellFormed(event)
    THEN [ok |-> TRUE,
          value |-> <<event, [i \in 1..Len(event) |-> event[i] + 1]>>,
          error |-> None]
    ELSE [ok |-> FALSE, value |-> <<>>,
          error |-> Some([type |-> "MeasureError", keys |-> {}, event |-> Some(event)])]

\* the abstract weight_set property of a polynomial evaluable
weight_set == {1, 2}

RECURSIVE Pow(_, _)
Pow(x, w) == IF w = 0 THEN 1 ELSE x * Pow(x, w - 1)

\* thetas**w, elementwise
ArrayPow(thetas, w) == [i \in 1..Len(thetas) |-> Pow(thetas[i], w)]

RECURSIVE Dot(_, _, _)
Dot(zs, phats, i) ==
    IF i > Min(Len(zs), Len(phats)) THEN 0
    ELSE zs[i] * phats[i] + Dot(zs, phats, i + 1)

\* EfmSet.compute(zs, phats): the moment values of one event
EfmSetCompute(zs, phats) == <<Len(zs), Dot(zs, phats, 1)>>

AttributeError == Some([type |-> "AttributeError", keys |-> {"_measure"}, event |-> None])
ArgTypeError == Some([type |-> "TypeError", keys |-> {}, event |-> None])
ArgValueError == Some([type |-> "ValueError", keys |-> {}, event |-> None])
AssertionError == Some([type |-> "AssertionError", keys |-> {}, event |-> None])
ZeroDivisionError == Some([type |-> "ZeroDivisionError", keys |-> {}, event |-> None])

(***************************************************************************)
(* EFBase: the object and its accessors.                                   *)
(***************************************************************************)
\* an object on which no __init__ has set anything
Bare(cls) == [cls |-> cls, measure_ |-> None, use_efms |-> None, n_jobs |-> None]

\* the outcome of a call: what it returned or raised, the object it leaves,
\* and the collaborator calls it made, in order
Return(o, v, tr) == [ok |-> TRUE, obj |-> o, value |-> v, error |-> None, trace |-> tr]
Raise(o, e, tr) == [ok |-> FALSE, obj |-> o, value |-> <<>>, error |-> e, trace |-> tr]

has_measure(o) == o.measure_ # None

measure(o) == IF has_measure(o) THEN Val(o.measure_).measure ELSE None
beta(o) == IF has_measure(o) THEN Val(o.measure_).beta ELSE None
kappa(o) == IF has_measure(o) THEN Val(o.measure_).kappa ELSE None
normed(o) == IF has_measure(o) THEN Val(o.measure_).normed ELSE None
coords(o) == IF has_measure(o) THEN Val(o.measure_).coords ELSE None
check_input(o) == IF has_measure(o) THEN Val(o.measure_).check_input ELSE None
subslicing(o) == IF has_measure(o) THEN Val(o.measure_).subslicing ELSE None

Without(kwargs, key) == [k \in (DOMAIN kwargs) \ {key} |-> kwargs[k]]
SetDefault(kwargs, key, v) ==
    [k \in (DOMAIN kwargs) \cup {key} |-> IF k \in DOMAIN kwargs THEN kwargs[k] ELSE v]

\* EFBase.__init__ with the kwargs_check call left out
EFBase_init_unchecked(o, kwargs) ==
    Return([o EXCEPT !.measure_ = Some(MeasureNew(kwargs))], None, <<"Measure">>)

\* EFBase.__init__(self, kwargs)
EFBase_init(o, kwargs) ==
    LET chk == kwargs_check(kwargs, measure_kwargs)
    IN  IF ~chk.ok THEN Raise(o, chk.error, <<"kwargs_check">>)
        ELSE Return([o EXCEPT !.measure_ = Some(MeasureNew(kwargs))], None,
                    <<"kwargs_check", "Measure">>)

(***************************************************************************)
(* EFPBase.                                                                *)
(***************************************************************************)
\* EFPBase.__init__ that pops no_measure and builds the measure all the same
EFPBase_init_always_measure(kwargs) ==
    LET base == EFBase_init(Bare("EFP"),
                            SetDefault(Without(kwargs, "no_measure"), "measure", Hadr))
    IN  IF ~base.ok THEN base
        ELSE Return([base.obj EXCEPT !.use_efms = Some(Contains(Efm, Val(measure(base.obj))))],
                    None, base.trace)

\* EFPBase.__init__(self, kwargs)
EFPBase_init(kwargs) ==
    LET o == Bare("EFP")
        no_measure == Get(kwargs, "no_measure", FALSE)
        kw == SetDefault(Without(kwargs, "no_measure"), "measure", Hadr)
        base == EFBase_init(o, kw)
    IN  IF no_measure THEN Return(o, None, <<>>)
        ELSE IF ~base.ok THEN base
        ELSE Return([base.obj EXCEPT !.use_efms = Some(Contains(Efm, Val(measure(base.obj))))],
                    None, base.trace)

\* get_zs_thetas_dict testing `zs is None and thetas is None`
get_zs_thetas_dict_and(o, event, zs, thetas) ==
    IF event # None
    THEN IF ~has_measure(o) THEN Raise(o, AttributeError, <<>>)
         ELSE LET ev == MeasureEvaluate(Val(o.measure_), Val(event))
              IN  IF ~ev.ok THEN Raise(o, ev.error, <<event>>)
                  ELSE Return(o, <<ev.value[1],
                                   [w \in weight_set |-> ArrayPow(ev.value[2], w)]>>,
                              <<event>>)
    ELSE IF zs = None /\ thetas = None THEN Raise(o, ArgTypeError, <<>>)
    ELSE IF thetas = None THEN Raise(o, ArgTypeError, <<>>)
    ELSE Return(o, <<zs, [w \in weight_set |-> ArrayPow(Val(thetas), w)]>>, <<>>)

\* get_zs_thetas_dict testing the truth value of event (`if event:`)
get_zs_thetas_dict_truthy(o, event, zs, thetas) ==
    IF event # None /\ ~Falsy(Val(event))
    THEN IF ~has_measure(o) THEN Raise(o, AttributeError, <<>>)
         ELSE LET ev == MeasureEvaluate(Val(o.measure_), Val(event))
              IN  IF ~ev.ok THEN Raise(o, ev.error, <<event>>)
                  ELSE Return(o, <<ev.value[1],
                                   [w \in weight_set |-> ArrayPow(ev.value[2], w)]>>,
                              <<event>>)
    ELSE IF zs = None \/ thetas = None THEN Raise(o, ArgTypeError, <<>>)
    ELSE Return(o, <<Val(zs), [w \in weight_set |-> ArrayPow(Val(thetas), w)]>>, <<>>)

\* EFPBase.get_zs_thetas_dict(self, event, zs, thetas)
get_zs_thetas_dict(o, event, zs, thetas) ==
    IF event # None
    THEN IF ~has_measure(o) THEN Raise(o, AttributeError, <<>>)
         ELSE LET ev == MeasureEvaluate(Val(o.measure_), Val(event))
              IN  IF ~ev.ok THEN Raise(o, ev.error, <<event>>)
                  ELSE Return(o, <<ev.value[1],
                                   [w \in weight_set |-> ArrayPow(ev.value[2], w)]>>,
                              <<event>>)
    ELSE IF zs = None \/ thetas = None THEN Raise(o, ArgTypeError, <<>>)
    ELSE Return(o, <<Val(zs), [w \in weight_set |-> ArrayPow(Val(thetas), w)]>>, <<>>)

\* EFPBase.compute_efms(self, event, zs, phats)
compute_efms(o, event, zs, phats) ==
    IF event # None
    THEN IF ~has_measure(o) THEN Raise(o, AttributeError, <<>>)
         ELSE LET ev == MeasureEvaluate(Val(o.measure_), Val(event))
              IN  IF ~ev.ok THEN Raise(o, ev.error, <<event>>)
                  ELSE Return(o, EfmSetCompute(ev.value[1], ev.value[2]), <<event>>)
    ELSE IF zs = None \/ phats = None THEN Raise(o, ArgTypeError, <<>>)
    ELSE Return(o, EfmSetCompute(Val(zs), Val(phats)), <<>>)

\* a concrete EFP's compute(event, batch_call=True): the kernel applied to the
\* zs / angle-power table (the kernel is kept as the identity on that table)
EFP_compute(o, event) == get_zs_thetas_dict(o, event, None, None)

(***************************************************************************)
(* EFMBase.                                                                *)
(***************************************************************************)
\* EFMBase.__init__ without the line that clears the measure's beta
EFMBase_init_keep_beta(kwargs) ==
    LET o == Bare("EFM")
        kw0 == SetDefault(kwargs, "measure", HadrEfm)
    IN  IF ~Contains(Efm, kw0["measure"]) THEN Raise(o, AssertionError, <<>>)
        ELSE IF Get(kw0, "no_measure", FALSE) THEN Return(o, None, <<>>)
        ELSE EFBase_init(o, Without(kw0, "no_measure"))

\* EFMBase.__init__ without the assertion on the measure kind
EFMBase_init_no_assert(kwargs) ==
    LET o == Bare("EFM")
        kw0 == SetDefault(kwargs, "measure", HadrEfm)
        base == EFBase_init(o, Without(kw0, "no_measure"))
    IN  IF Get(kw0, "no_measure", FALSE) THEN Return(o, None, <<>>)
        ELSE IF ~base.ok THEN base
        ELSE Return([base.obj EXCEPT
                        !.measure_ = Some([Val(base.obj.measure_) EXCEPT !.beta = None])],
                    None, base.trace)

\* EFMBase.__init__(self, kwargs)
EFMBase_init(kwargs) ==
    LET o == Bare("EFM")
        kw0 == SetDefault(kwargs, "measure", HadrEfm)
        no_measure == Get(kw0, "no_measure", FALSE)
        base == EFBase_init(o, Without(kw0, "no_measure"))
    IN  IF ~Contains(Efm, kw0["measure"]) THEN Raise(o, AssertionError, <<>>)
        ELSE IF no_measure THEN Return(o, None, <<>>)
        ELSE IF ~base.ok THEN base
        ELSE Return([base.obj EXCEPT
                        !.measure_ = Some([Val(base.obj.measure_) EXCEPT !.beta = None])],
                    None, base.trace)

\* EFMBase.compute(self, event=None, zs=None, phats=None)
EFM_compute(o, event, zs, phats) ==
    IF event # None
    THEN IF ~has_measure(o) THEN Raise(o, AttributeError, <<>>)
         ELSE LET ev == MeasureEvaluate(Val(o.measure_), Val(event))
              IN  IF ~ev.ok THEN Raise(o, ev.error, <<event>>)
                  ELSE Return(o, ev.value, <<event>>)
    ELSE IF zs = None \/ phats = None THEN Raise(o, ArgValueError, <<>>)
    ELSE Return(o, <<Val(zs), Val(phats)>>, <<>>)

\* self._batch_compute_func(event), by class
batch_compute_func(o, event) ==
    IF o.cls = "EFP" THEN EFP_compute(o, Some(event))
    ELSE EFM_compute(o, Some(event), None, None)

(***************************************************************************)
(* EFBase.batch_compute.                                                   *)
(***************************************************************************)
\* multiprocessing.cpu_count(): a count, or None when it raises
CpuOutcomes == {None, Some(1), Some(2)}

\* lines 77-81: the resolved n_jobs
ResolveJobs(n_jobs, cpu) ==
    IF n_jobs = AutoJobs
    THEN IF cpu = None THEN FallbackJobs ELSE Val(cpu)
    ELSE n_jobs

\* ChunkSize with the upper clamp forgotten
ChunkSize_no_upper(len, n_jobs) == Max(len \div n_jobs, 1)

\* line 90: min(max(len(events)//self.n_jobs, 1), 10000)
ChunkSize(len, n_jobs) == Min(Max(len \div n_jobs, 1), MaxChunk)

\* the lengths of the contiguous blocks imap cuts n items into
RECURSIVE ChunkLens(_, _)
ChunkLens(n, chunksize) ==
    IF n <= 0 \/ chunksize < 1 THEN <<>>
    ELSE <<Min(n, chunksize)>> \o ChunkLens(n - chunksize, chunksize)

RECURSIVE Slices(_, _)
Slices(events, lens) ==
    IF lens = <<>> THEN <<>>
    ELSE <<SubSeq(events, 1, Head(lens))>>
         \o Slices(SubSeq(events, Head(lens) + 1, Len(events)), Tail(lens))

\* a map that swallows the failure of an event and keeps the other results
RECURSIVE MapEvents_swallow(_, _, _)
MapEvents_swallow(o, events, acc) ==
    IF events = <<>> THEN Return(o, acc, <<>>)
    ELSE LET r == batch_compute_func(o, Head(events))
         IN  IF ~r.ok THEN MapEvents_swallow(o, Tail(events), acc)
             ELSE MapEvents_swallow(o, Tail(events), Append(acc, r.value))

\* map(func, block), stopping at the first event whose compute raises
RECURSIVE MapEvents(_, _, _)
MapEvents(o, events, acc) ==
    IF events = <<>> THEN Return(o, acc, <<>>)
    ELSE LET r == batch_compute_func(o, Head(events))
         IN  IF ~r.ok THEN Raise(o, r.error, <<>>)
             ELSE MapEvents(o, Tail(events), Append(acc, r.value))

\* np.asarray(list(...)): the dense vector of the listed results, in order
np_asarray(list) == [i \in 1..Len(list) |-> list[i]]

\* the tasks imap queues: one per block, in input order
MakeChunks(events, chunksize) ==
    LET blocks == Slices(events, ChunkLens(Len(events), chunksize))
    IN  [i \in 1..Len(blocks) |-> [events |-> blocks[i], state |-> "queued"]]

NoPool == [state |-> "none", processes |-> 0]

\* leaving the parallel block: `with` terminates the pool on every exit (Python 3);
\* Python 2 reaches pool.close() only when nothing was raised
PoolAtExit(p, version, raised) ==
    IF version = 3 THEN [p EXCEPT !.state = "TERMINATE"]
    ELSE IF raised THEN p
    ELSE [p EXCEPT !.state = "CLOSE"]

(***************************************************************************)
(* The state machine.                                                      *)
(***************************************************************************)
Kinds == {Hadr, HadrEfm}
Keys(m, b, n, f) ==
    (IF m = None THEN {} ELSE {"measure"}) \cup (IF b = None THEN {} ELSE {"beta"})
    \cup (IF n = None THEN {} ELSE {"no_measure"}) \cup (IF f = None THEN {} ELSE {"foo"})
Kwargs(m, b, n, f) ==
    [k \in Keys(m, b, n, f) |->
        CASE k = "measure" -> Val(m)
          [] k = "beta" -> Val(b)
          [] k = "no_measure" -> Val(n)
          [] OTHER -> Val(f)]
KwargsDomain ==
    {Kwargs(m, b, n, f) : m \in Opt(Kinds), b \in Opt({2}), n \in Opt(BOOLEAN), f \in Opt({1})}

RECURSIVE SeqsUpTo(_, _)
SeqsUpTo(S, n) ==
    IF n = 0 THEN {<<>>}
    ELSE LET shorter == SeqsUpTo(S, n - 1)
         IN  shorter \cup {Append(s, x) : s \in {t \in shorter : Len(t) = n - 1}, x \in S}

EventsDomain == SeqsUpTo(EventDomain, MaxLen)
JobsDomain == {AutoJobs, 0, 1, 2}

NoCall == [op |-> "none", args |-> <<>>, done |-> TRUE, ok |-> TRUE, value |-> <<>>,
           error |-> None, trace |-> <<>>]
Done(op, args, r) ==
    [op |-> op, args |-> args, done |-> TRUE, ok |-> r.ok, value |-> r.value,
     error |-> r.error, trace |-> r.trace]
NoSize == [len |-> 0, req |-> 0, n_jobs |-> 0, path |-> "none", chunksize |-> 0, ok |-> TRUE,
           outlen |-> 0]

Idle == built = "ok" /\ call.op = "none"

Init ==
    /\ built = "new"
    /\ ctor_no_measure = FALSE
    /\ obj = Bare("none")
    /\ call = NoCall
    /\ pyVersion \in {2, 3}
    /\ pool = NoPool
    /\ chunks = <<>>
    /\ collected = <<>>
    /\ sz = NoSize

Construct ==
    /\ built = "new"
    /\ \E cls \in {"EFP", "EFM"}, kwargs \in KwargsDomain :
        LET r == IF cls = "EFP" THEN EFPBase_init(kwargs) ELSE EFMBase_init(kwargs)
        IN  /\ ctor_no_measure' = Get(kwargs, "no_measure", FALSE)
            /\ built' = IF r.ok THEN "ok" ELSE "failed"
            /\ obj' = r.obj
            /\ call' = Done("init", [cls |-> cls, kwargs |-> kwargs], r)
    /\ UNCHANGED <<pyVersion, pool, chunks, collected, sz>>

GetZsThetasDict ==
    /\ Idle /\ obj.cls = "EFP"
    /\ \E event \in Opt(EventDomain), zs \in Opt(ArrayDomain), thetas \in Opt(ArrayDomain) :
        call' = Done("get_zs_thetas_dict", [event |-> event, zs |-> zs, thetas |-> thetas],
                     get_zs_thetas_dict(obj, event, zs, thetas))
    /\ UNCHANGED <<built, ctor_no_measure, obj, pyVersion, pool, chunks, collected, sz>>

ComputeEfms ==
    /\ Idle /\ obj.cls = "EFP"
    /\ \E event \in Opt(EventDomain), zs \in Opt(ArrayDomain), phats \in Opt(ArrayDomain) :
        call' = Done("compute_efms", [event |-> event, zs |-> zs, thetas |-> phats],
                     compute_efms(obj, event, zs, phats))
    /\ UNCHANGED <<built, ctor_no_measure, obj, pyVersion, pool, chunks, collected, sz>>

EFMCompute ==
    /\ Idle /\ obj.cls = "EFM"
    /\ \E event \in Opt(EventDomain), zs \in Opt(ArrayDomain), phats \in Opt(ArrayDomain) :
        call' = Done("compute", [event |-> event, zs |-> zs, thetas |-> phats],
                     EFM_compute(obj, event, zs, phats))
    /\ UNCHANGED <<built, ctor_no_measure, obj, pyVersion, pool, chunks, collected, sz>>

\* batch_compute up to the point where it returns, raises or has queued the tasks
BatchCompute ==
    /\ Idle
    /\ \E events \in EventsDomain, n_jobs \in JobsDomain, cpu \in CpuOutcomes :
        /\ n_jobs = AutoJobs \/ cpu = None
        /\ LET n == ResolveJobs(n_jobs, cpu)
               o == [obj EXCEPT !.n_jobs = Some(n)]
               args == [events |-> events, n_jobs |-> n_jobs, chunksize |-> 0]
               seq == MapEvents(o, events, <<>>)
           IN  /\ obj' = o
               /\ collected' = <<>>
               /\ IF n = 1
                  THEN /\ call' = Done("batch_compute", args,
                                       IF seq.ok THEN Return(o, np_asarray(seq.value), <<>>) ELSE seq)
                       /\ pool' = NoPool
                       /\ chunks' = <<>>
                  ELSE IF n = 0
                  THEN /\ call' = Done("batch_compute", args, Raise(o, ZeroDivisionError, <<>>))
                       /\ pool' = NoPool
                       /\ chunks' = <<>>
                  ELSE /\ call' = [Done("batch_compute",
                                        [args EXCEPT !.chunksize = ChunkSize(Len(events), n)],
                                        Return(o, <<>>, <<>>)) EXCEPT !.done = FALSE]
                       /\ pool' = [state |-> "RUN", processes |-> n]
                       /\ chunks' = MakeChunks(events, ChunkSize(Len(events), n))
    /\ UNCHANGED <<built, ctor_no_measure, pyVersion, sz>>

InFlight == built = "ok" /\ ~call.done /\ pool.state = "RUN"

Running == {i \in 1..Len(chunks) : chunks[i].state = "running"}
Queued == {i \in 1..Len(chunks) : chunks[i].state = "queued"}
Yielded == {i \in 1..Len(chunks) : chunks[i].state = "yielded"}

Finished == {i \in 1..Len(chunks) : chunks[i].state = "done"}

\* imap_unordered: whichever finished block comes to hand
NextToYield_unordered ==
    IF Finished = {} THEN Cardinality(Yielded) + 1
    ELSE CHOOSE i \in Finished : \A j \in Finished : j <= i

\* imap (not imap_unordered): the block the result iterator hands out next
NextToYield == Cardinality(Yielded) + 1

\* a free worker process takes the oldest queued task
WorkerTake ==
    /\ InFlight
    /\ Queued # {}
    /\ Cardinality(Running) < pool.processes
    /\ LET i == CHOOSE j \in Queued : \A k \in Queued : j <= k
       IN  chunks' = [chunks EXCEPT ![i].state = "running"]
    /\ UNCHANGED <<built, ctor_no_measure, obj, call, pyVersion, pool, collected, sz>>

\* a worker finishes its block, in any order among the running ones
WorkerFinish ==
    /\ InFlight
    /\ \E i \in Running : chunks' = [chunks EXCEPT ![i].state = "done"]
    /\ UNCHANGED <<built, ctor_no_measure, obj, call, pyVersion, pool, collected, sz>>

\* list(pool.imap(...)) takes the next block's results, in input order; a block
\* whose compute raised re-raises in the caller
Collect ==
    /\ InFlight
    /\ LET i == NextToYield
       IN  /\ i <= Len(chunks)
           /\ chunks[i].state = "done"
           /\ LET r == MapEvents(obj, chunks[i].events, <<>>)
              IN  IF r.ok
                  THEN /\ collected' = collected \o r.value
                       /\ chunks' = [chunks EXCEPT ![i].state = "yielded"]
                       /\ UNCHANGED <<call, pool>>
                  ELSE /\ call' = Done("batch_compute", call.args, r)
                       /\ pool' = PoolAtExit(pool, pyVersion, TRUE)
                       /\ chunks' = <<>>
                       /\ collected' = <<>>
    /\ UNCHANGED <<built, ctor_no_measure, obj, pyVersion, sz>>

\* every block was listed: leave the pool's block and return the vector
BatchReturn ==
    /\ InFlight
    /\ Cardinality(Yielded) = Len(chunks)
    /\ call' = Done("batch_compute", call.args, Return(obj, np_asarray(collected), <<>>))
    /\ pool' = PoolAtExit(pool, pyVersion, FALSE)
    /\ chunks' = <<>>
    /\ collected' = <<>>
    /\ UNCHANGED <<built, ctor_no_measure, obj, pyVersion, sz>>

\* the caller takes what the call returned or raised; the object is ready again
Resume ==
    /\ call.done /\ call.op # "none"
    /\ call' = NoCall
    /\ UNCHANGED <<built, ctor_no_measure, obj, pyVersion, pool, chunks, collected, sz>>

Next ==
    \/ Construct
    \/ GetZsThetasDict
    \/ ComputeEfms
    \/ EFMCompute
    \/ BatchCompute
    \/ WorkerTake
    \/ WorkerFinish
    \/ Collect
    \/ BatchReturn
    \/ Resume

Spec == Init /\ [][Next]_vars

(***************************************************************************)
(* batch_compute by sizes alone: every event well formed, so that only the *)
(* number of events matters and sequences far longer than the upper clamp  *)
(* of the chunk size can be drawn.                                         *)
(***************************************************************************)
RECURSIVE Sum(_)
Sum(lens) == IF lens = <<>> THEN 0 ELSE Head(lens) + Sum(Tail(lens))

batch_compute_size(len, n_jobs, n) ==
    IF n = 1
    THEN [len |-> len, req |-> n_jobs, n_jobs |-> n, path |-> "sequential", chunksize |-> 0,
          ok |-> TRUE, outlen |-> len]
    ELSE IF n = 0
    THEN [len |-> len, req |-> n_jobs, n_jobs |-> n, path |-> "raise", chunksize |-> 0,
          ok |-> FALSE, outlen |-> 0]
    ELSE [len |-> len, req |-> n_jobs, n_jobs |-> n, path |-> "pool",
          chunksize |-> ChunkSize(len, n),
          ok |-> TRUE, outlen |-> Sum(ChunkLens(len, ChunkSize(len, n)))]

InitSize ==
    /\ built = "ok"
    /\ ctor_no_measure = FALSE
    /\ obj = EFMBase_init(Kwargs(None, None, None, None)).obj
    /\ call = NoCall
    /\ pyVersion \in {2, 3}
    /\ pool = NoPool
    /\ chunks = <<>>
    /\ collected = <<>>
    /\ sz = NoSize

BatchSize ==
    /\ sz.path = "none"
    /\ \E len \in 0..MaxBigLen, n_jobs \in JobsDomain, cpu \in CpuOutcomes :
        /\ n_jobs = AutoJobs \/ cpu = None
        /\ sz' = batch_compute_size(len, n_jobs, ResolveJobs(n_jobs, cpu))
    /\ UNCHANGED <<built, ctor_no_measure, obj, call, pyVersion, pool, chunks, collected>>

NextSize == BatchSize

SpecSize == InitSize /\ [][NextSize]_vars

(***************************************************************************)
(* The claims.                                                             *)
(***************************************************************************)
InitDone == call.op = "init"
SingleDone == call.op \in {"get_zs_thetas_dict", "compute_efms", "compute"}
BatchDone == call.op = "batch_compute" /\ call.done

\* the single-event compute of every event of a batch, on the object as it is
Each(events) == [i \in 1..Len(events) |-> batch_compute_func(obj, events[i])]
Failing(events) == {i \in 1..Len(events) : ~Each(events)[i].ok}

\* C1: for a requested n_jobs of 1, 2 or -1, batch_compute returns whenever every
\* event's compute succeeds, and the vector it returns has the length of events and
\* holds at i the single-event compute of events[i], however the blocks were run.
C1_BatchOrderPreserved ==
    (BatchDone /\ call.args.n_jobs \in {1, 2, AutoJobs}) =>
        LET events == call.args.events
        IN  /\ (Failing(events) = {}) => call.ok
            /\ call.ok =>
                /\ Len(call.value) = Len(events)
                /\ \A i \in 1..Len(events) : call.value[i] = Each(events)[i].value

\* a pool of two workers returned four events in two blocks of two, the blocks differing
C1_Witness ==
    /\ BatchDone /\ call.ok
    /\ call.args.n_jobs = 2 /\ call.args.chunksize = 2
    /\ Len(call.args.events) = 4
    /\ call.args.events[1] # call.args.events[3]
    /\ pool.state # "none"

\* C2: once batch_compute has returned or raised on the parallel path, the pool it
\* created is released (closed or terminated).
C2_PoolReleasedOnExit ==
    (BatchDone /\ pool.state # "none") => pool.state \in {"CLOSE", "TERMINATE"}

\* C3: when the compute of some event of the batch raises, batch_compute raises and
\* returns nothing; what it raises is the failure of the first failing event (when
\* n_jobs is 0 the division of line 90 fails before any compute).
C3_NoPartialResults ==
    (BatchDone /\ Failing(call.args.events) # {}) =>
        LET events == call.args.events
            first == CHOOSE i \in Failing(events) : \A j \in Failing(events) : i <= j
        IN  /\ ~call.ok
            /\ call.value = <<>>
            /\ obj.n_jobs # Some(0) => call.error = Each(events)[first].error

\* a parallel batch whose first event succeeds and a later one fails has raised
C3_Witness ==
    /\ BatchDone /\ ~call.ok
    /\ pool.state # "none"
    /\ Len(call.args.events) >= 3
    /\ 1 \notin Failing(call.args.events)
    /\ Failing(call.args.events) # {}

\* C4 as stated: an unrecognized key makes every construction fail with the
\* configuration error naming it, whatever the other keys are.
C4_UnknownKeyAlwaysRejected ==
    (InitDone /\ "foo" \in DOMAIN call.args.kwargs) =>
        /\ ~call.ok
        /\ built = "failed"
        /\ Val(call.error).type = "TypeError"
        /\ "foo" \in Val(call.error).keys

\* the measure kind a constructor works with: the given one or the class default
KindOf(cls, kwargs) == Get(kwargs, "measure", IF cls = "EFP" THEN Hadr ELSE HadrEfm)

\* C4 amended: with no_measure absent or false, an unrecognized key makes the
\* construction fail and no measure is built; the failure is the configuration error
\* naming the key, except for a moment evaluable whose measure kind lacks 'efm', where
\* the assertion fails first.
C4_UnknownKeyRejectedWithMeasure ==
    (InitDone /\ "foo" \in DOMAIN call.args.kwargs
             /\ ~Get(call.args.kwargs, "no_measure", FALSE)) =>
        /\ ~call.ok
        /\ built = "failed"
        /\ ~has_measure(obj)
        /\ \A i \in 1..Len(call.trace) : call.trace[i] # "Measure"
        /\ IF call.args.cls = "EFM" /\ ~Contains(Efm, KindOf("EFM", call.args.kwargs))
           THEN call.error = AssertionError
           ELSE Val(call.error).type = "TypeError" /\ Val(call.error).keys = {"foo"}

\* a polynomial evaluable given foo and no_measure=False was refused, naming foo
C4_Witness ==
    /\ InitDone /\ call.args.cls = "EFP"
    /\ "foo" \in DOMAIN call.args.kwargs
    /\ "no_measure" \in DOMAIN call.args.kwargs
    /\ ~call.ok
    /\ Val(call.error).keys = {"foo"}

\* C5: a constructed moment evaluable reports a null beta in every state.
C5_MomentBetaNull ==
    (built = "ok" /\ obj.cls = "EFM") => beta(obj) = None

\* a moment evaluable built with beta=2 and a measure reports a null beta
C5_Witness ==
    /\ InitDone /\ call.ok /\ call.args.cls = "EFM"
    /\ "beta" \in DOMAIN call.args.kwargs
    /\ call.args.kwargs["beta"] = 2
    /\ has_measure(obj)
    /\ beta(obj) = None

\* what an entry point makes of explicit zs and thetas / phats
FromArrays(op, zs, ts) ==
    CASE op = "get_zs_thetas_dict" ->
            <<zs, [w \in weight_set |-> [i \in 1..Len(ts) |-> ts[i] ^ w]]>>
      [] op = "compute_efms" -> EfmSetCompute(zs, ts)
      [] OTHER -> <<zs, ts>>

\* the same entry point called with an event alone
FromEvent(op, o, event) ==
    CASE op = "get_zs_thetas_dict" -> get_zs_thetas_dict(o, Some(event), None, None)
      [] op = "compute_efms" -> compute_efms(o, Some(event), None, None)
      [] OTHER -> EFM_compute(o, Some(event), None, None)

\* C6: with event=None, a missing zs or thetas/phats raises the argument error and
\* Measure.evaluate is not called; with both given the call succeeds on exactly the
\* given values, with the result an event evaluating to those values gives.
C6_EventNone ==
    (SingleDone /\ call.args.event = None) =>
        IF call.args.zs = None \/ call.args.thetas = None
        THEN /\ ~call.ok
             /\ call.error = IF call.op = "compute" THEN ArgValueError ELSE ArgTypeError
             /\ call.trace = <<>>
        ELSE /\ call.ok
             /\ call.trace = <<>>
             /\ call.value = FromArrays(call.op, Val(call.args.zs), Val(call.args.thetas))
             /\ \A e \in EventDomain :
                   (/\ has_measure(obj)
                    /\ WellFormed(e)
                    /\ MeasureEvaluate(Val(obj.measure_), e).value
                          = <<Val(call.args.zs), Val(call.args.thetas)>>)
                   => call.value = FromEvent(call.op, obj, e).value

\* explicit values that are those of a non-empty event were accepted
C6_Witness ==
    /\ SingleDone /\ call.args.event = None /\ call.ok
    /\ call.op = "get_zs_thetas_dict"
    /\ has_measure(obj)
    /\ \E e \in EventDomain :
          /\ WellFormed(e) /\ e # <<>>
          /\ MeasureEvaluate(Val(obj.measure_), e).value
                = <<Val(call.args.zs), Val(call.args.thetas)>>

\* C7: an evaluable constructed with no_measure=true has no measure and every
\* measure-derived accessor is null, in every state after construction.
C7_NoMeasureAccessorsNull ==
    (built = "ok" /\ ctor_no_measure) =>
        /\ ~has_measure(obj)
        /\ measure(obj) = None
        /\ beta(obj) = None
        /\ kappa(obj) = None
        /\ normed(obj) = None
        /\ coords(obj) = None
        /\ check_input(obj) = None
        /\ subslicing(obj) = None

\* batch_compute has stored n_jobs on an evaluable built with no_measure=true
C7_Witness ==
    /\ built = "ok" /\ ctor_no_measure
    /\ obj.cls = "EFP"
    /\ obj.n_jobs = Some(2)
    /\ BatchDone

Clamp(x, lo, hi) == IF x < lo THEN lo ELSE IF x > hi THEN hi ELSE x

\* C8: on the parallel path with n_jobs >= 2 the chunk size is
\* clamp(len(events) // n_jobs, 1, 10000), within [1, 10000], and 1 for no events;
\* a batch of no events returns an empty vector on either path.
C8_ChunkSize ==
    /\ (sz.path = "pool" /\ sz.n_jobs >= 2) =>
          /\ sz.chunksize = Clamp(sz.len \div sz.n_jobs, 1, 10000)
          /\ sz.chunksize >= 1 /\ sz.chunksize <= 10000
          /\ sz.len = 0 => sz.chunksize = 1
    /\ (sz.path \in {"sequential", "pool"} /\ sz.len = 0) => (sz.ok /\ sz.outlen = 0)
    /\ (sz.path \in {"sequential", "pool"}) => (sz.ok /\ sz.outlen = sz.len)

\* more than 2 * 10000 events on two workers: the upper clamp decides
C8_Witness ==
    /\ sz.path = "pool" /\ sz.n_jobs = 2
    /\ sz.len \div 2 > 10000
    /\ sz.chunksize = 10000

\* C9: a moment evaluable whose measure kind lacks 'efm' fails in construction with
\* the assertion error, before kwargs are checked or a Measure is built; without a
\* measure kind the default 'hadrefm' passes the assertion.
C9_MomentKindAsserted ==
    (InitDone /\ call.args.cls = "EFM") =>
        IF "measure" \in DOMAIN call.args.kwargs
        THEN ~Contains(Efm, call.args.kwargs["measure"]) =>
                /\ ~call.ok
                /\ built = "failed"
                /\ call.error = AssertionError
                /\ call.trace = <<>>
                /\ ~has_measure(obj)
        ELSE /\ call.error # AssertionError
             /\ has_measure(obj) => measure(obj) = Some(HadrEfm)
             /\ (DOMAIN call.args.kwargs \subseteq {"beta"}) => (call.ok /\ has_measure(obj))

\* a moment evaluable asked for with measure='hadr' and no_measure=True was refused
C9_Witness ==
    /\ InitDone /\ call.args.cls = "EFM"
    /\ Get(call.args.kwargs, "measure", HadrEfm) = Hadr
    /\ Get(call.args.kwargs, "no_measure", FALSE)
    /\ call.error = AssertionError
    /\ built = "failed"

\* C10 as stated: a falsy event that is not None is taken for absent: evaluate is not
\* called on it and the explicit zs and thetas/phats are used.
C10_FalsyEventIgnored ==
    (SingleDone /\ call.args.event # None /\ Falsy(Val(call.args.event))
        /\ has_measure(obj) /\ call.args.zs # None /\ call.args.thetas # None) =>
        /\ call.trace = <<>>
        /\ call.value = FromArrays(call.op, Val(call.args.zs), Val(call.args.thetas))

\* C10 amended: on an evaluable with a measure, a falsy event that is not None is
\* evaluated like any other event and the explicit zs and thetas/phats are discarded.
C10_FalsyEventEvaluated ==
    (SingleDone /\ call.args.event # None /\ Falsy(Val(call.args.event))
        /\ has_measure(obj)) =>
        LET ev == MeasureEvaluate(Val(obj.measure_), Val(call.args.event))
        IN  /\ call.trace = <<call.args.event>>
            /\ call.ok
            /\ call.value = FromArrays(call.op, ev.value[1], ev.value[2])

\* the empty event was passed together with non-empty explicit arrays
C10_Witness ==
    /\ SingleDone /\ call.op = "get_zs_thetas_dict"
    /\ call.args.event = Some(<<>>)
    /\ call.args.zs = Some(<<2, 1>>) /\ call.args.thetas = Some(<<3, 2>>)
    /\ has_measure(obj)
    /\ call.ok
    /\ call.value[1] = <<>>

====
